---- MODULE Spec2Model ----
(***************************************************************************)
(* rvm: a function-as-a-service runtime.  The admin front-end deploys a    *)
(* module under a key (src/main.rs, services::deploy_module), the proxy    *)
(* front-end routes an invocation to the worker registered under the first *)
(* path segment (src/main.rs, main and services::invoke_module), one       *)
(* worker task per instance serves its inbox (src/host.rs,                 *)
(* compile_and_start_instance_worker) and the registry is rebuilt from the *)
(* object store when the process starts (src/state.rs, AppState::new).     *)
(*                                                                         *)
(* Strings are sequences of one-character strings.                         *)
(***************************************************************************)
EXTENDS Integers, Sequences, FiniteSets, TLC

VARIABLES
    phase,      \* "starting": AppState::new is running; "running"; "down": startup failed
    pending,    \* the object-store entries AppState::new has still to load
    store,      \* the object store: blob name -> module bytes
    instances,  \* AppState.instances: key -> the worker holding the receiver of the sender
    workers,    \* the live worker tasks (each owns one store): worker id -> record
    nextId,     \* the id the next spawned worker gets
    dep,        \* the deploy holding the registry's write lock, if any
    last,       \* the response the step just taken returned, if it returned one
    lastOk,     \* history: key -> the worker of the last deploy that returned success
    okBytes,    \* history (recovery alone): key -> the bytes of the latest deploy of the
                \* key, if it succeeded
    ticket,     \* history (ordering alone): the number of requests enqueued so far
    uri,        \* routing alone: the request URI's path-and-query
    routed      \* routing alone: what the proxy made of uri, once it has (<<>> before)

vars == <<phase, pending, store, instances, workers, nextId, dep, last, lastOk,
          okBytes, ticket, uri, routed>>

----------------------------------------------------------------------------
(* Bounds of the model.                                                    *)

MaxWorkers == 3     \* worker tasks spawned in one behaviour
MaxInbox == 2       \* requests queued in one worker's inbox
Headroom == 2       \* pool slots the other tenants' instances leave free
MaxUriLen == 5      \* characters of a request URI in the routing specification
MaxTickets == 4     \* requests enqueued in the ordering specification

(* Program constants.                                                      *)

FuelCeiling == 100000000
TotalCoreInstances == 100

----------------------------------------------------------------------------
(* Strings.                                                                *)

None == <<"none">>

IsPrefix(p, s) == Len(p) <= Len(s) /\ SubSeq(s, 1, Len(p)) = p

IsSuffix(p, s) == Len(p) <= Len(s) /\ SubSeq(s, Len(s) - Len(p) + 1, Len(s)) = p

\* str::trim_start_matches(pat): the pattern is removed from the front repeatedly.
RECURSIVE TrimStartMatches(_, _)
TrimStartMatches(s, pat) ==
    IF pat # <<>> /\ IsPrefix(pat, s)
    THEN TrimStartMatches(SubSeq(s, Len(pat) + 1, Len(s)), pat)
    ELSE s

\* str::trim_end_matches(pat): the pattern is removed from the end repeatedly.
RECURSIVE TrimEndMatches(_, _)
TrimEndMatches(s, pat) ==
    IF pat # <<>> /\ IsSuffix(pat, s)
    THEN TrimEndMatches(SubSeq(s, 1, Len(s) - Len(pat)), pat)
    ELSE s

\* The index of the first occurrence of character c in s, 0 when there is none.
FirstIndex(s, c) ==
    IF \E i \in 1..Len(s) : s[i] = c
    THEN CHOOSE i \in 1..Len(s) : s[i] = c /\ \A j \in 1..(i - 1) : s[j] # c
    ELSE 0

\* str::split_once(c): Some((before, after)) of the first c, or None.
SplitOnce(s, c) ==
    LET i == FirstIndex(s, c)
    IN  IF i = 0 THEN None
        ELSE <<SubSeq(s, 1, i - 1), SubSeq(s, i + 1, Len(s))>>

\* PathAndQuery::path: the text before the first '?'.
PathOf(pq) ==
    LET i == FirstIndex(pq, "?")
    IN  IF i = 0 THEN pq ELSE SubSeq(pq, 1, i - 1)

\* PathAndQuery::query: Some(the text after the first '?'), or None.
QueryOf(pq) ==
    LET i == FirstIndex(pq, "?")
    IN  IF i = 0 THEN None ELSE SubSeq(pq, i + 1, Len(pq))

\* Option::unwrap_or("").
UnwrapOrEmpty(o) == IF o = None THEN <<>> ELSE o

Slash == <<"/">>

WasmSuffix == <<".", "w", "a", "s", "m">>

----------------------------------------------------------------------------
(* The proxy's routing of a request URI (src/main.rs, the service_fn).     *)

\* Faulty variant: the '/' at the front is not trimmed before the split.
SplitFirstSegmentUntrimmed(pq) == SplitOnce(pq, "/")

\* split_once on the first '/' taken with no '/' at the front; (key, forward).
SplitFirstSegment(pq) == SplitOnce(TrimStartMatches(pq, Slash), "/")

\* The (key, forward) pair of a path-and-query string.
KeyAndForward(pq) ==
    LET split == SplitFirstSegment(pq)
    IN  IF split # None
        THEN [key |-> split[1], forward |-> split[2]]
        ELSE [key |-> PathOf(pq), forward |-> UnwrapOrEmpty(QueryOf(pq))]

\* The rewritten request: the key that is looked up and the URI the guest sees,
\* PathAndQuery::from_str("/" + forward), read back as its path and its query.
ProxyRoute(pq) ==
    LET kf == KeyAndForward(pq)
        new == Slash \o kf.forward
    IN  [key |-> kf.key, path |-> PathOf(new), query |-> QueryOf(new)]

----------------------------------------------------------------------------
(* Keys, module bytes and the inputs of the model.                         *)

KeyA == <<"a">>
KeyAW == KeyA \o WasmSuffix

\* The keys deploys name (the {key} segment of POST /deploy/{key}).
Keys == {KeyA, KeyAW}

\* Module bytes: two components that compile and instantiate, one that does not.
GoodBytes == {"v1", "v2"}
BadBytes == "bad"
Bytes == GoodBytes \cup {BadBytes}

\* format!("{key}.wasm")
BlobName(k) == k \o WasmSuffix

BlobNames == {BlobName(k) : k \in Keys}

\* The request URIs invokes name: /a/, /a.wasm/ and /a.
InvokeUris ==
    {Slash \o k \o Slash : k \in Keys} \cup {Slash \o KeyA}

\* The key the proxy extracts from each of these URIs.
RoutedKey == [u \in InvokeUris |-> ProxyRoute(u).key]

\* Fuel a guest handler call needs.
Costs == {0, 60000000}

\* What the guest does with its response outparam: sets a response, sets an
\* error code, drops it, keeps it without setting it; or the call traps.
GuestOutcomes == {"ok", "err", "drop", "keep", "trap"}

\* How the upload task ends: the write and the close succeed, or one of them fails.
WriteOutcomes == {"ok", "failed"}

----------------------------------------------------------------------------
(* Helpers on functions.                                                   *)

EmptyMap == [x \in {} |-> 0]

Range(f) == {f[x] : x \in DOMAIN f}

Remove(f, x) == [y \in (DOMAIN f) \ {x} |-> f[y]]

Put(f, x, v) == [y \in (DOMAIN f) \cup {x} |-> IF y = x THEN v ELSE f[y]]

\* The orders in which an object-store listing can return the entries S.
Listings(S) ==
    {s \in [1..Cardinality(S) -> S] : \A i, j \in 1..Cardinality(S) : s[i] = s[j] => i = j}

----------------------------------------------------------------------------
(* The engine and a worker's store.                                        *)

\* Instances of other tenants, loaded at startup and idle since.
OtherTenants == TotalCoreInstances - Headroom

\* Instances the pooling allocator holds: every live worker task owns one store.
LiveInstances(ws) == OtherTenants + Cardinality(DOMAIN ws)

\* Faulty variant: the pool admits one instance beyond its limit.
PoolHasRoomInclusive(ws) == LiveInstances(ws) <= TotalCoreInstances

\* pool.total_core_instances(100): instantiation fails when the pool is full.
PoolHasRoom(ws) == LiveInstances(ws) < TotalCoreInstances

\* Component::from_binary and instantiate_pre succeed.
Compiles(b) == b \in GoodBytes

\* id is the request's place in the order of enqueues, where that is recorded.
NoReq == [key |-> <<>>, after |-> 0, id |-> 0]

\* The worker compile_and_start_instance_worker spawns: a store with the fuel set,
\* an empty inbox whose sender the caller holds, the task at receiver.recv().
NewWorker(k, b) ==
    [key |-> k, bytes |-> b, fuel |-> FuelCeiling, inbox |-> <<>>, open |-> TRUE,
     pc |-> "recv", cur |-> NoReq, fuelBefore |-> 0, exhausted |-> FALSE]

\* u64::saturating_sub
SaturatingSub(a, b) == IF a >= b THEN a - b ELSE 0

\* The call runs out of fuel: none is left at entry, or the call needs more than is left.
OutOfFuel(fuel, cost) == fuel = 0 \/ cost > fuel

\* Faulty variant: a store that ran out of fuel is given its full budget again.
FuelAfterCallRefill(fuel, cost) == IF OutOfFuel(fuel, cost) THEN FuelCeiling ELSE fuel - cost

\* store.get_fuel() after a call that needed cost.
FuelAfterCall(fuel, cost) == IF OutOfFuel(fuel, cost) THEN 0 ELSE fuel - cost

\* The fuel_before the worker records for a call (store.get_fuel() before call_handle).
FuelBeforeCall(w) == w.fuel

\* Faulty variant: the subtraction is taken the wrong way round.
FuelHeadersSwapped(fuelBefore, fuelAfter) ==
    [remaining |-> fuelAfter, consumed |-> SaturatingSub(fuelAfter, fuelBefore)]

\* The two headers stamped on a response: [remaining, consumed].
FuelHeaders(fuelBefore, fuelAfter) ==
    [remaining |-> fuelAfter, consumed |-> SaturatingSub(fuelBefore, fuelAfter)]

NoHeaders == [remaining |-> -1, consumed |-> -1]

\* Faulty variant: a failed call sends nothing, the request is dropped.
WorkerReplySilentOnTrap(trapped, g) ==
    IF trapped THEN "dropped"
    ELSE IF g = "ok" THEN "resp"
    ELSE IF g = "err" THEN "err"
    ELSE "dropped"

\* What the worker puts on the caller's one-shot: a structured error when the call
\* failed; otherwise what the guest's outparam yields: its response, its error
\* code, or nothing (the one-shot is dropped with the request).
WorkerReply(trapped, g) ==
    IF trapped THEN "err"
    ELSE IF g = "ok" THEN "resp"
    ELSE IF g = "err" THEN "err"
    ELSE "dropped"

----------------------------------------------------------------------------
(* The registry.                                                           *)

\* Faulty variant: the registry is replaced by the one new entry.
RegistryInsertOnly(inst, k, w) == (k :> w)

\* Faulty variant: an entry that exists is kept (entry().or_insert()).
RegistryInsertKeepFirst(inst, k, w) == IF k \in DOMAIN inst THEN inst ELSE Put(inst, k, w)

\* HashMap::insert: the entry is set, a previous sender is returned and dropped.
RegistryInsert(inst, k, w) == Put(inst, k, w)

\* Faulty variant: dropping the last sender also discards what is queued.
DropSendersDiscarding(ws, inst, held) ==
    [w \in DOMAIN ws |->
        IF w \in Range(inst) \/ w \in held
        THEN ws[w]
        ELSE [ws[w] EXCEPT !.open = FALSE, !.inbox = <<>>]]

\* A sender is alive while something holds it: the registry, or the deploy or the
\* startup that made it and has not yet given it away.
DropSenders(ws, inst, held) ==
    [w \in DOMAIN ws |->
        [ws[w] EXCEPT !.open = ws[w].open /\ (w \in Range(inst) \/ w \in held)]]

\* services::invoke_module up to the send: 404 without an entry, 503 when the
\* receiver is gone, 0 when the request is enqueued.
LookupStatus(inst, ws, k) ==
    IF k \notin DOMAIN inst THEN 404
    ELSE IF inst[k] \notin DOMAIN ws THEN 503
    ELSE 0

\* services::invoke_module's match on rx.await.
AwaitStatus(reply) ==
    IF reply = "resp" THEN 200
    ELSE IF reply = "err" THEN 500
    ELSE 503

----------------------------------------------------------------------------
(* Responses.                                                              *)

NoDeploy == [pc |-> "idle", key |-> <<>>, bytes |-> "none", wid |-> 0]

\* op, key, status and the fuel headers are what the client sees; the rest records
\* the call it came from: why the status is what it is, the worker that served an
\* invoke, the request's history and whether the store had run out of fuel before.
Response(op, k, status, why) ==
    [op |-> op, key |-> k, status |-> status, why |-> why, worker |-> 0,
     after |-> 0, headers |-> NoHeaders, spent |-> FALSE]

NoResponse == Response("none", <<>>, 0, "none")

LastOkOf(k) == IF k \in DOMAIN lastOk THEN lastOk[k] ELSE 0

----------------------------------------------------------------------------
(* The initial state: the process has started on an object store that      *)
(* holds the other tenants' modules and none under the keys of the model.  *)

Started ==
    /\ phase = "running"
    /\ pending = <<>>
    /\ store = EmptyMap
    /\ instances = EmptyMap
    /\ workers = EmptyMap
    /\ nextId = 1
    /\ dep = NoDeploy
    /\ last = NoResponse
    /\ lastOk = [k \in Keys |-> 0]
    /\ okBytes = [k \in Keys |-> "none"]
    /\ ticket = 0

Init ==
    /\ Started
    /\ uri = <<>>
    /\ routed = <<>>

----------------------------------------------------------------------------
(* services::deploy_module (src/main.rs).  The write lock is held from the *)
(* first step to the return, so one deploy is in progress at a time and no *)
(* invoke looks up the registry meanwhile.                                 *)

\* Faulty variant: the blob is written before the worker is constructed, so a
\* deploy that fails in construction has already changed the object store.
DeployStartStoreFirst(k, b) ==
    /\ phase = "running"
    /\ dep.pc = "idle"
    /\ IF Compiles(b) /\ PoolHasRoom(workers)
       THEN /\ nextId <= MaxWorkers
            /\ workers' = Put(workers, nextId, NewWorker(k, b))
            /\ nextId' = nextId + 1
            /\ dep' = [pc |-> "upload", key |-> k, bytes |-> b, wid |-> nextId]
            /\ last' = NoResponse
            /\ UNCHANGED store
       ELSE /\ last' = Response("deploy", k, 500, "construct")
            /\ store' = Put(store, k \o WasmSuffix, b)
            /\ UNCHANGED <<workers, nextId, dep>>
    /\ UNCHANGED <<phase, pending, instances, lastOk, uri, routed>>

\* Take the write lock, make the inbox, compile and instantiate, spawn the worker.
\* A failure returns 500 (the inbox is dropped, nothing was spawned).
DeployStart(k, b) ==
    /\ phase = "running"
    /\ dep.pc = "idle"
    /\ IF Compiles(b) /\ PoolHasRoom(workers)
       THEN /\ nextId <= MaxWorkers
            /\ workers' = Put(workers, nextId, NewWorker(k, b))
            /\ nextId' = nextId + 1
            /\ dep' = [pc |-> "upload", key |-> k, bytes |-> b, wid |-> nextId]
            /\ last' = NoResponse
       ELSE /\ last' = Response("deploy", k, 500, "construct")
            /\ UNCHANGED <<workers, nextId, dep>>
    /\ UNCHANGED <<phase, pending, store, instances, lastOk, uri, routed>>

\* Faulty variant: a blob that exists is not overwritten.
StoreAfterWriteKeepExisting(st, name, b, outcome) ==
    IF outcome = "ok" /\ name \notin DOMAIN st THEN Put(st, name, b) ELSE st

\* The object store after the upload task: the blob holds the bytes when the write
\* and the close succeeded.
StoreAfterWrite(st, name, b, outcome) ==
    IF outcome = "ok" THEN Put(st, name, b) ELSE st

\* Faulty variant: the result of the upload is ignored and the deploy goes on to
\* the insert.
DeployUploadIgnoreError(outcome) ==
    /\ phase = "running"
    /\ dep.pc = "upload"
    /\ store' = StoreAfterWrite(store, BlobName(dep.key), dep.bytes, outcome)
    /\ dep' = [dep EXCEPT !.pc = "insert"]
    /\ last' = NoResponse
    /\ UNCHANGED <<phase, pending, instances, workers, nextId, lastOk, uri, routed>>

\* The upload: on success the deploy goes on to the insert; on failure it returns
\* 500, which drops the new worker's sender.
DeployUpload(outcome) ==
    /\ phase = "running"
    /\ dep.pc = "upload"
    /\ store' = StoreAfterWrite(store, BlobName(dep.key), dep.bytes, outcome)
    /\ IF outcome = "ok"
       THEN /\ dep' = [dep EXCEPT !.pc = "insert"]
            /\ last' = NoResponse
            /\ UNCHANGED workers
       ELSE /\ dep' = NoDeploy
            /\ workers' = DropSenders(workers, instances, {})
            /\ last' = Response("deploy", dep.key, 500, "storage")
    /\ UNCHANGED <<phase, pending, instances, nextId, lastOk, uri, routed>>

\* state.instances.insert(key, tx), the 200 response and the release of the lock.
DeployInsert ==
    /\ phase = "running"
    /\ dep.pc = "insert"
    /\ instances' = RegistryInsert(instances, dep.key, dep.wid)
    /\ workers' = DropSenders(workers, instances', {})
    /\ dep' = NoDeploy
    /\ lastOk' = [lastOk EXCEPT ![dep.key] = dep.wid]
    /\ last' = [Response("deploy", dep.key, 200, "ok") EXCEPT !.worker = dep.wid]
    /\ UNCHANGED <<phase, pending, store, nextId, uri, routed>>

----------------------------------------------------------------------------
(* The proxy and services::invoke_module (src/main.rs).                    *)

\* The proxy rewrites the request and calls invoke_module. Before it holds the read
\* lock the invoke has only made its one-shot, so it is one step, taken when no
\* deploy holds the write lock: look the key up and send the request to the
\* worker's inbox; 404 or 503 when that fails.
InvokeAs(u, id) ==
    /\ phase = "running"
    /\ dep.pc = "idle"
    /\ LET key == RoutedKey[u]
           req == [key |-> key, after |-> LastOkOf(key), id |-> id]
           status == LookupStatus(instances, workers, key)
       IN  IF status # 0
           THEN /\ last' = [Response("invoke", key, status,
                                     IF status = 404 THEN "absent" ELSE "closed")
                               EXCEPT !.after = req.after]
                /\ UNCHANGED workers
           ELSE /\ Len(workers[instances[key]].inbox) < MaxInbox
                /\ workers' = [workers EXCEPT ![instances[key]].inbox = Append(@, req)]
                /\ last' = NoResponse
    /\ UNCHANGED <<phase, pending, store, instances, nextId, dep, lastOk, uri, routed>>

Invoke(u) == InvokeAs(u, 0)

----------------------------------------------------------------------------
(* The worker task (src/host.rs, the loop of the spawned task).            *)

\* Faulty variant: the next request is taken whether or not the previous call has
\* ended.
WorkerRecvEager(w) ==
    /\ w \in DOMAIN workers
    /\ workers[w].pc \in {"recv", "call"}
    /\ workers[w].inbox # <<>>
    /\ workers' = [workers EXCEPT ![w] =
            [@ EXCEPT !.cur = Head(workers[w].inbox),
                      !.inbox = Tail(workers[w].inbox),
                      !.fuelBefore = FuelBeforeCall(workers[w]),
                      !.pc = "call"]]
    /\ last' = NoResponse
    /\ UNCHANGED <<phase, pending, store, instances, nextId, dep, lastOk, uri, routed>>

\* Faulty variant: the request enqueued last is taken first.
WorkerRecvNewest(w) ==
    /\ w \in DOMAIN workers
    /\ workers[w].pc = "recv"
    /\ workers[w].inbox # <<>>
    /\ workers' = [workers EXCEPT ![w] =
            [@ EXCEPT !.cur = workers[w].inbox[Len(workers[w].inbox)],
                      !.inbox = SubSeq(workers[w].inbox, 1, Len(workers[w].inbox) - 1),
                      !.fuelBefore = FuelBeforeCall(workers[w]),
                      !.pc = "call"]]
    /\ last' = NoResponse
    /\ UNCHANGED <<phase, pending, store, instances, nextId, dep, lastOk, uri, routed>>

\* receiver.recv() yields the next request, also after the sender was dropped; the
\* worker records the fuel and calls the guest's handler.
WorkerRecv(w) ==
    /\ w \in DOMAIN workers
    /\ workers[w].pc = "recv"
    /\ workers[w].inbox # <<>>
    /\ workers' = [workers EXCEPT ![w] =
            [@ EXCEPT !.cur = Head(workers[w].inbox),
                      !.inbox = Tail(workers[w].inbox),
                      !.fuelBefore = FuelBeforeCall(workers[w]),
                      !.pc = "call"]]
    /\ last' = NoResponse
    /\ UNCHANGED <<phase, pending, store, instances, nextId, dep, lastOk, uri, routed>>

\* receiver.recv() yields None: the inbox is empty and every sender is dropped. The
\* task ends and its store is dropped.
WorkerExit(w) ==
    /\ w \in DOMAIN workers
    /\ workers[w].pc = "recv"
    /\ workers[w].inbox = <<>>
    /\ ~workers[w].open
    /\ workers' = Remove(workers, w)
    /\ last' = NoResponse
    /\ UNCHANGED <<phase, pending, store, instances, nextId, dep, lastOk, uri, routed>>

\* The handler call failed: the store ran out of fuel, or the guest trapped.
CallTrapped(fuel, cost, g) == OutOfFuel(fuel, cost) \/ g = "trap"

\* The handler call returns, having needed cost units of fuel and treated its
\* outparam as g says. A failed call answers with an error and the loop goes on; a
\* call that returned answers with what the outparam's one-shot yields, and waits
\* on that one-shot for ever when the guest kept the outparam.
WorkerCall(w, cost, g) ==
    /\ w \in DOMAIN workers
    /\ workers[w].pc = "call"
    /\ LET me == workers[w]
           trapped == CallTrapped(me.fuel, cost, g)
           fuelAfter == FuelAfterCall(me.fuel, cost)
           reply == WorkerReply(trapped, g)
       IN  IF ~trapped /\ g = "keep"
           THEN /\ workers' = [workers EXCEPT ![w] = [@ EXCEPT !.fuel = fuelAfter, !.pc = "stuck"]]
                /\ last' = NoResponse
           ELSE /\ workers' = [workers EXCEPT ![w] =
                        [@ EXCEPT !.fuel = fuelAfter, !.pc = "recv", !.cur = NoReq,
                                  !.fuelBefore = 0,
                                  !.exhausted = me.exhausted \/ OutOfFuel(me.fuel, cost)]]
                /\ last' = [op |-> "invoke", key |-> me.cur.key, status |-> AwaitStatus(reply),
                            why |-> reply, worker |-> w, after |-> me.cur.after,
                            headers |-> IF reply = "resp"
                                        THEN FuelHeaders(me.fuelBefore, fuelAfter)
                                        ELSE NoHeaders,
                            spent |-> me.exhausted]
    /\ UNCHANGED <<phase, pending, store, instances, nextId, dep, lastOk, uri, routed>>

----------------------------------------------------------------------------
(* Process restart and AppState::new (src/state.rs).                       *)

\* The process is killed and started again: every task and the registry are gone,
\* the object store stays, and AppState::new lists it.
Restart ==
    /\ \E listing \in Listings(DOMAIN store) :
          pending' = listing
    /\ phase' = IF DOMAIN store = {} THEN "running" ELSE "starting"
    /\ instances' = EmptyMap
    /\ workers' = EmptyMap
    /\ dep' = NoDeploy
    /\ last' = NoResponse
    /\ lastOk' = [k \in Keys |-> 0]
    /\ UNCHANGED <<store, nextId, uri, routed>>

\* module_entry.name().trim_end_matches(".wasm")
ModuleNameOf(entry) == TrimEndMatches(entry, WasmSuffix)

\* One round of AppState::new's loop: read the blob, spawn its worker, register the
\* sender under the entry's name without the suffix. A blob that does not compile or
\* a full pool ends the startup, and with it the process.
StartupLoad ==
    /\ phase = "starting"
    /\ pending # <<>>
    /\ LET entry == Head(pending)
           name == ModuleNameOf(entry)
       IN  IF Compiles(store[entry]) /\ PoolHasRoom(workers)
           THEN /\ nextId <= MaxWorkers
                /\ instances' = RegistryInsert(instances, name, nextId)
                /\ workers' = DropSenders(Put(workers, nextId, NewWorker(name, store[entry])),
                                          instances', {})
                /\ nextId' = nextId + 1
                /\ pending' = Tail(pending)
                /\ phase' = IF Tail(pending) = <<>> THEN "running" ELSE "starting"
           ELSE /\ phase' = "down"
                /\ pending' = <<>>
                /\ instances' = EmptyMap
                /\ workers' = EmptyMap
                /\ UNCHANGED nextId
    /\ last' = NoResponse
    /\ UNCHANGED <<store, dep, lastOk, uri, routed>>

----------------------------------------------------------------------------
(* The system: deploys, invokes, workers and restarts.                     *)

Next ==
    \/ \E k \in Keys, b \in Bytes : DeployStart(k, b) /\ UNCHANGED <<okBytes, ticket>>
    \/ \E outcome \in WriteOutcomes : DeployUpload(outcome) /\ UNCHANGED <<okBytes, ticket>>
    \/ DeployInsert /\ UNCHANGED <<okBytes, ticket>>
    \/ \E u \in InvokeUris : Invoke(u) /\ UNCHANGED <<okBytes, ticket>>
    \/ \E w \in DOMAIN workers : WorkerRecv(w) /\ UNCHANGED <<okBytes, ticket>>
    \/ \E w \in DOMAIN workers : WorkerExit(w) /\ UNCHANGED <<okBytes, ticket>>
    \/ \E w \in DOMAIN workers, cost \in Costs, g \in GuestOutcomes :
          WorkerCall(w, cost, g) /\ UNCHANGED <<okBytes, ticket>>
    \/ Restart /\ UNCHANGED <<okBytes, ticket>>
    \/ StartupLoad /\ UNCHANGED <<okBytes, ticket>>

Spec == Init /\ [][Next]_vars

----------------------------------------------------------------------------
(* Recovery: deploys and restarts with no invocation arriving, and the     *)
(* history of what the latest deploy of each key did.                      *)

DeployStartTracked(k, b) ==
    /\ DeployStart(k, b)
    /\ okBytes' = [okBytes EXCEPT ![k] = "none"]
    /\ UNCHANGED ticket

DeployInsertTracked ==
    /\ DeployInsert
    /\ okBytes' = [okBytes EXCEPT ![dep.key] = dep.bytes]
    /\ UNCHANGED ticket

NextRecovery ==
    \/ \E k \in Keys, b \in Bytes : DeployStartTracked(k, b)
    \/ \E outcome \in WriteOutcomes : DeployUpload(outcome) /\ UNCHANGED <<okBytes, ticket>>
    \/ DeployInsertTracked
    \/ \E w \in DOMAIN workers : WorkerExit(w) /\ UNCHANGED <<okBytes, ticket>>
    \/ Restart /\ UNCHANGED <<okBytes, ticket>>
    \/ StartupLoad /\ UNCHANGED <<okBytes, ticket>>

RecoverySpec == Init /\ [][NextRecovery]_vars

----------------------------------------------------------------------------
(* Routing alone: the proxy's rewrite of every request URI of the bound.   *)

UriChars == {"/", "?", "k", "x"}

\* Origin-form request URIs: they start with '/'.
UriInputs ==
    {s \in UNION {[1..n -> UriChars] : n \in 1..MaxUriLen} : s[1] = "/"}

UriInit ==
    /\ Started
    /\ uri \in UriInputs
    /\ routed = <<>>

RouteRequest ==
    /\ routed = <<>>
    /\ routed' = <<ProxyRoute(uri)>>
    /\ UNCHANGED <<phase, pending, store, instances, workers, nextId, dep, last, lastOk,
                   okBytes, ticket, uri>>

UriSpec == UriInit /\ [][RouteRequest]_vars

----------------------------------------------------------------------------
(* Properties of the routing (under UriSpec).                              *)

\* u is /<key>/<rest>[?<query>] with a non-empty key free of '/': its second '/' is
\* at i and its path is the first n characters.
KeyRestForm(u, i, n) ==
    /\ 3 <= i /\ i <= n /\ n <= Len(u)
    /\ u[1] = "/" /\ u[i] = "/"
    /\ \A j \in 2..(i - 1) : u[j] # "/"
    /\ \A j \in 1..n : u[j] # "?"
    /\ n < Len(u) => u[n + 1] = "?"

\* C8: for every URI /<key>/<rest>[?<query>] with a non-empty key free of '/', the
\* proxy looks up exactly <key> and the guest sees the path /<rest> and the query
\* unchanged (no query when the URI has none).
C8_KeyAndRemainderForwarded ==
    routed # <<>> =>
        \A i \in 1..Len(uri), n \in 1..Len(uri) :
            KeyRestForm(uri, i, n) =>
                /\ routed[1].key = SubSeq(uri, 2, i - 1)
                /\ routed[1].path = Slash \o SubSeq(uri, i + 1, n)
                /\ routed[1].query = IF n = Len(uri) THEN None
                                     ELSE SubSeq(uri, n + 2, Len(uri))

\* A URI with a key, a non-empty rest and a query has been routed.
C8_Witness ==
    /\ routed # <<>>
    /\ \E i \in 1..Len(uri), n \in 1..Len(uri) :
          KeyRestForm(uri, i, n) /\ i < n /\ n < Len(uri)

\* u is /<key>: a non-empty key with no '/' after it and no query.
BareKeyForm(u) ==
    /\ Len(u) >= 2
    /\ u[1] = "/"
    /\ \A j \in 2..Len(u) : u[j] # "/" /\ u[j] # "?"

\* C9: a URI /<key> with no slash after the key is dispatched to the module
\* registered under <key> and forwarded to the guest as / with an empty query.
C9_BareKeyDispatchedToKey ==
    (routed # <<>> /\ BareKeyForm(uri)) =>
        /\ routed[1].key = SubSeq(uri, 2, Len(uri))
        /\ routed[1].path = Slash
        /\ routed[1].query \in {None, <<>>}

----------------------------------------------------------------------------
(* Properties of deploys, invokes and workers (under Spec).                *)

\* C1: once a deploy of key k has returned success, k stays in the registry through
\* every later invoke and deploy of any key, and no invoke that starts after that
\* success returns 404.
C1_DeployedKeyNeverNotFound ==
    /\ \A k \in Keys : lastOk[k] # 0 => k \in DOMAIN instances
    /\ (last.op = "invoke" /\ last.status = 404) => last.after = 0

\* An invoke that started after a successful deploy of its key has been answered.
C1_Witness ==
    /\ last.op = "invoke"
    /\ last.after # 0
    /\ last.status = 200
    /\ \E k \in Keys : k # last.key /\ lastOk[k] # 0

\* The requests a worker holds: those in its inbox and the one it is serving.
HeldRequests(w) ==
    {workers[w].inbox[i] : i \in 1..Len(workers[w].inbox)}
        \cup (IF workers[w].pc = "recv" THEN {} ELSE {workers[w].cur})

\* C2: an invoke of k that starts after a deploy of k has returned success is
\* enqueued to the worker of that deploy (the latest one to succeed) and is answered
\* by that worker, never by the instance it replaced.
C2_InvokeAfterDeployGoesToNewWorker ==
    /\ \A w \in DOMAIN workers : \A r \in HeldRequests(w) : r.after # 0 => r.after = w
    /\ (last.op = "invoke" /\ last.worker # 0 /\ last.after # 0) => last.worker = last.after

\* A key was redeployed while its old worker still holds a request, and an invoke
\* that started after the redeploy sits in the new worker's inbox.
C2_Witness ==
    \E k \in DOMAIN instances, old \in DOMAIN workers :
        /\ instances[k] \in DOMAIN workers
        /\ old # instances[k]
        /\ workers[old].key = k
        /\ HeldRequests(old) # {}
        /\ \E r \in HeldRequests(instances[k]) : r.after = instances[k]

\* C3: a deploy whose worker construction fails (the bytes do not compile, or the
\* instantiation fails) returns 500 and leaves the registry, every worker and the
\* object store as they were.
C3_FailedConstructionChangesNothing ==
    [][\A k \in Keys, b \in Bytes :
          (~(Compiles(b) /\ PoolHasRoom(workers)) /\ DeployStart(k, b)) =>
              /\ last'.op = "deploy" /\ last'.status = 500
              /\ UNCHANGED <<instances, workers, store>>]_vars

\* A deploy under a key that has a serving worker failed in construction.
C3_Witness ==
    /\ last.op = "deploy"
    /\ last.why = "construct"
    /\ last.key \in DOMAIN instances
    /\ instances[last.key] \in DOMAIN workers
    /\ workers[instances[last.key]].open
    /\ BlobName(last.key) \in DOMAIN store

\* C5: an instance starts with its fuel at the ceiling, its fuel never increases,
\* and an invocation on an instance that has run out of fuel fails with 500.
C5_FuelOnlyDecreases ==
    [][/\ \A w \in (DOMAIN workers') \ (DOMAIN workers) : workers'[w].fuel = FuelCeiling
       /\ \A w \in (DOMAIN workers') \cap (DOMAIN workers) :
             workers'[w].fuel <= workers[w].fuel
       /\ (last'.op = "invoke" /\ last'.spent) => last'.status = 500]_vars

\* An invocation on an instance that had run out of fuel has been answered, and the
\* key has since been given a new instance with the full budget.
C5_Witness ==
    /\ last.op = "invoke"
    /\ last.spent
    /\ last.worker \in DOMAIN workers
    /\ workers[last.worker].fuel = 0
    /\ \E w \in DOMAIN workers :
          w # last.worker /\ workers[w].key = last.key /\ workers[w].fuel = FuelCeiling

\* C6: a successful invocation response carries the instance's fuel after the call
\* as x-rvm-fuel-remaining and fuel-before minus fuel-after of that call as
\* x-rvm-fuel-consumed, which is never negative.
C6_FuelHeadersOfTheCall ==
    [][(last'.op = "invoke" /\ last'.status = 200) =>
          /\ last'.worker \in DOMAIN workers
          /\ last'.worker \in DOMAIN workers'
          /\ last'.headers.remaining = workers'[last'.worker].fuel
          /\ last'.headers.consumed =
                 workers[last'.worker].fuel - workers'[last'.worker].fuel
          /\ last'.headers.consumed >= 0
          /\ workers[last'.worker].fuel - last'.headers.consumed = last'.headers.remaining]_vars

\* A successful response to a call that consumed part of the instance's fuel.
C6_Witness ==
    /\ last.op = "invoke"
    /\ last.status = 200
    /\ last.headers.consumed > 0
    /\ last.headers.remaining > 0
    /\ last.headers.remaining < FuelCeiling

\* C7: the pool never holds more than its 100 instances, and a deploy attempted
\* while the pool is full returns 500 and leaves the registry and every worker as
\* they were.
C7_PoolCapHolds ==
    [][/\ LiveInstances(workers') <= TotalCoreInstances
       /\ LiveInstances(workers) >= TotalCoreInstances =>
             \A k \in Keys, b \in Bytes :
                 DeployStart(k, b) =>
                     /\ last'.op = "deploy" /\ last'.status = 500
                     /\ UNCHANGED <<instances, workers>>]_vars

\* A deploy was refused while the pool was full and the registered workers serve on.
C7_Witness ==
    /\ last.op = "deploy"
    /\ last.status = 500
    /\ LiveInstances(workers) = TotalCoreInstances
    /\ \E k \in DOMAIN instances :
          instances[k] \in DOMAIN workers /\ workers[instances[k]].open

\* The status the claim gives an invocation whose handler call has ended.
ClaimedStatus(trapped, g) ==
    IF trapped \/ g = "err" THEN 500
    ELSE IF g = "ok" THEN 200
    ELSE 503

\* C10: an invoke returns 404 exactly when its key is absent from the registry, 503
\* when the worker's receiver is gone or the worker drops the one-shot (the guest
\* handler returned without producing a response), 500 when the worker replies
\* with an error, and otherwise the guest's response; an invoke never changes the
\* registry.
C10_InvokeStatusByCase ==
    [][/\ \A u \in InvokeUris :
             Invoke(u) =>
                 /\ instances' = instances
                 /\ last'.status = 404 <=> RoutedKey[u] \notin DOMAIN instances
                 /\ last'.status \in {0, 404, 503}
       /\ \A w \in DOMAIN workers, cost \in Costs, g \in GuestOutcomes :
             WorkerCall(w, cost, g) =>
                 /\ instances' = instances
                 /\ last'.op = "invoke"
                 /\ last'.status = ClaimedStatus(CallTrapped(workers[w].fuel, cost, g), g)]_vars

\* The guest's handler returned keeping its outparam unset: the worker waits on the
\* outparam's one-shot and the caller on its own, with no status.
C10_Witness ==
    \E w \in DOMAIN workers : workers[w].pc = "stuck" /\ workers[w].cur.key \in DOMAIN instances

\* C10 with the guest that keeps its outparam left out: every other case has the
\* status the claim gives it.
C10_StatusByCaseWhenOutparamReleased ==
    [][/\ \A u \in InvokeUris :
             Invoke(u) =>
                 /\ instances' = instances
                 /\ last'.status = 404 <=> RoutedKey[u] \notin DOMAIN instances
                 /\ last'.status \in {0, 404, 503}
       /\ \A w \in DOMAIN workers, cost \in Costs, g \in GuestOutcomes \ {"keep"} :
             WorkerCall(w, cost, g) =>
                 /\ instances' = instances
                 /\ last'.op = "invoke"
                 /\ last'.status = ClaimedStatus(CallTrapped(workers[w].fuel, cost, g), g)]_vars

----------------------------------------------------------------------------
(* Properties of the recovery (under RecoverySpec).                        *)

\* C4: when the startup has rebuilt the registry from the object store, every key
\* whose latest deploy succeeded with bytes B is registered with a worker that
\* runs B.
C4_RestartRestoresDeployedKeys ==
    [][(phase = "starting" /\ phase' = "running") =>
          \A k \in Keys :
              okBytes[k] # "none" =>
                  /\ k \in DOMAIN instances'
                  /\ instances'[k] \in DOMAIN workers'
                  /\ workers'[instances'[k]].bytes = okBytes[k]]_vars

\* The startup has finished over a store that holds the blob of a key deployed
\* with success.
C4_Witness ==
    /\ phase = "running"
    /\ instances # EmptyMap
    /\ \A k \in Keys : lastOk[k] = 0
    /\ \E k \in Keys : okBytes[k] # "none" /\ BlobName(k) \in DOMAIN store

----------------------------------------------------------------------------
(* Properties of the workers of one key (under Spec).                      *)

\* C11: at every instant, a redeploy included, at most one live worker (one
\* sandbox instance) exists per Module Key.
C11_OneWorkerPerKey ==
    \A w1, w2 \in DOMAIN workers : workers[w1].key = workers[w2].key => w1 = w2

\* A redeploy has spawned the new worker of a key whose registered worker is alive.
C11_Witness ==
    /\ dep.pc = "upload"
    /\ dep.key \in DOMAIN instances
    /\ instances[dep.key] \in DOMAIN workers
    /\ dep.wid \in DOMAIN workers
    /\ workers[dep.wid].key = dep.key

\* C12: once the registry's sender for a key has been replaced, the prior worker
\* ends at most the invocation it is serving and exits: it takes no further
\* request from its inbox.
C12_ReplacedWorkerTakesNoRequest ==
    [][\A w \in DOMAIN workers : WorkerRecv(w) => workers[w].open]_vars

\* A worker whose sender was replaced holds queued requests.
C12_Witness ==
    \E w \in DOMAIN workers :
        /\ ~workers[w].open
        /\ workers[w].pc = "recv"
        /\ workers[w].inbox # <<>>
        /\ workers[w].key \in DOMAIN instances
        /\ instances[workers[w].key] # w

\* C13: within one worker invocations are serialized: a request leaves the inbox
\* only while the worker is idle (the previous request answered or dropped), and
\* it becomes the one invocation the worker's instance is executing.
C13_OneInvocationAtATime ==
    [][\A w \in (DOMAIN workers) \cap (DOMAIN workers') :
          /\ Len(workers'[w].inbox) < Len(workers[w].inbox) =>
                /\ workers[w].pc = "recv"
                /\ workers[w].cur = NoReq
                /\ workers'[w].pc = "call"
                /\ workers'[w].cur = Head(workers[w].inbox)
                /\ workers'[w].inbox = Tail(workers[w].inbox)
          /\ workers'[w].pc = "recv" => workers'[w].cur = NoReq]_vars

\* A worker is executing one invocation while its inbox is full of further ones.
C13_Witness ==
    \E w \in DOMAIN workers :
        /\ workers[w].pc = "call"
        /\ workers[w].cur # NoReq
        /\ Len(workers[w].inbox) = MaxInbox

----------------------------------------------------------------------------
(* Ordering: deploys, invokes and workers with no restart; every request   *)
(* enqueued carries its place in the order of enqueues.                    *)

InvokeTicketed(u) ==
    /\ ticket < MaxTickets
    /\ InvokeAs(u, ticket + 1)
    /\ ticket' = IF last' = NoResponse THEN ticket + 1 ELSE ticket
    /\ UNCHANGED okBytes

NextOrder ==
    \/ \E k \in Keys, b \in Bytes : DeployStart(k, b) /\ UNCHANGED <<okBytes, ticket>>
    \/ \E outcome \in WriteOutcomes : DeployUpload(outcome) /\ UNCHANGED <<okBytes, ticket>>
    \/ DeployInsert /\ UNCHANGED <<okBytes, ticket>>
    \/ \E u \in InvokeUris : InvokeTicketed(u)
    \/ \E w \in DOMAIN workers : WorkerRecv(w) /\ UNCHANGED <<okBytes, ticket>>
    \/ \E w \in DOMAIN workers : WorkerExit(w) /\ UNCHANGED <<okBytes, ticket>>
    \/ \E w \in DOMAIN workers, cost \in Costs, g \in GuestOutcomes :
          WorkerCall(w, cost, g) /\ UNCHANGED <<okBytes, ticket>>

OrderSpec == Init /\ [][NextOrder]_vars

\* C14: a worker takes its requests in the order they were enqueued: the request
\* it starts was enqueued before every request still in its inbox, and its inbox
\* holds the requests in the order of their enqueues.
C14_RequestsServedInOrder ==
    [][\A w \in (DOMAIN workers) \cap (DOMAIN workers') :
          /\ \A i, j \in 1..Len(workers'[w].inbox) :
                i < j => workers'[w].inbox[i].id < workers'[w].inbox[j].id
          /\ (workers[w].pc = "recv" /\ workers'[w].pc = "call") =>
                /\ workers'[w].cur = workers[w].inbox[1]
                /\ \A i \in 1..Len(workers'[w].inbox) :
                      workers'[w].cur.id < workers'[w].inbox[i].id]_vars

\* A worker has started the first of its requests while a later one waits, and an
\* earlier round has been answered.
C14_Witness ==
    \E w \in DOMAIN workers :
        /\ workers[w].pc = "call"
        /\ workers[w].inbox # <<>>
        /\ workers[w].cur.id > 1
        /\ workers[w].cur.id < workers[w].inbox[1].id

----------------------------------------------------------------------------
(* Properties of the registry and the object store.                        *)

\* C15: in every reachable state, after deploys and after a startup recovery, each
\* key in the registry has its blob <key>.wasm in the object store.
C15_RegisteredKeysHaveBlobs ==
    \A k \in DOMAIN instances : BlobName(k) \in DOMAIN store

\* The startup has registered a key from a blob of the store.
C15_Witness ==
    /\ phase = "running"
    /\ \A k \in Keys : lastOk[k] = 0
    /\ \E k \in DOMAIN instances : \E name \in DOMAIN store : ModuleNameOf(name) = k

\* C16: a deploy whose write or close fails returns 500 and leaves the registry and
\* the registered workers as they were; the registry changes in a running process
\* only by the insert of a deploy whose blob holds the deployed bytes.
C16_FailedUploadLeavesRegistry ==
    [][/\ DeployUpload("failed") =>
             /\ last'.op = "deploy" /\ last'.status = 500
             /\ instances' = instances
             /\ \A k \in DOMAIN instances :
                   instances[k] \in DOMAIN workers =>
                       /\ instances[k] \in DOMAIN workers'
                       /\ workers'[instances[k]] = workers[instances[k]]
       /\ (phase = "running" /\ phase' = "running" /\ instances' # instances) =>
             /\ dep.pc = "insert"
             /\ BlobName(dep.key) \in DOMAIN store
             /\ store[BlobName(dep.key)] = dep.bytes
             /\ instances' = Put(instances, dep.key, dep.wid)]_vars

\* The upload of a redeploy failed while the key's registered worker is alive.
C16_Witness ==
    /\ last.op = "deploy"
    /\ last.why = "storage"
    /\ last.key \in DOMAIN instances
    /\ instances[last.key] \in DOMAIN workers
    /\ workers[instances[last.key]].open

----------------------------------------------------------------------------
(* Properties of failing calls and of replaced workers (under Spec).       *)

\* C17: a guest handler call that fails (a trap, fuel exhaustion included) fails
\* that invocation alone: its caller gets 500, the worker stays alive, registered
\* as before and back at its inbox, whose queued requests are untouched.
C17_TrapFailsOneInvocation ==
    [][\A w \in DOMAIN workers :
          (workers[w].pc = "call" /\ (w \in DOMAIN workers' => workers'[w].pc # "call")) =>
              \A cost \in Costs, g \in GuestOutcomes :
                  (CallTrapped(workers[w].fuel, cost, g) /\ WorkerCall(w, cost, g)) =>
                      /\ last'.op = "invoke" /\ last'.status = 500 /\ last'.worker = w
                      /\ instances' = instances
                      /\ w \in DOMAIN workers'
                      /\ workers'[w].pc = "recv"
                      /\ workers'[w].inbox = workers[w].inbox
                      /\ workers'[w].open = workers[w].open]_vars

\* A call has just run its store out of fuel; the worker is registered and a
\* further request waits in its inbox.
C17_Witness ==
    /\ last.op = "invoke"
    /\ last.status = 500
    /\ ~last.spent
    /\ last.worker \in DOMAIN workers
    /\ workers[last.worker].exhausted
    /\ workers[last.worker].inbox # <<>>
    /\ last.key \in DOMAIN instances
    /\ instances[last.key] = last.worker

\* C18: a request enqueued on a worker before its key was redeployed stays with
\* that worker: the worker of the latest successful deploy holds only requests
\* that started after that deploy, a worker's inbox loses a request only to the
\* worker itself, and no worker of a running process goes away while it holds one.
C18_QueuedRequestsStayWithOldWorker ==
    [][/\ \A k \in Keys :
             (lastOk'[k] # 0 /\ lastOk'[k] \in DOMAIN workers') =>
                 /\ \A i \in 1..Len(workers'[lastOk'[k]].inbox) :
                       workers'[lastOk'[k]].inbox[i].after = lastOk'[k]
                 /\ workers'[lastOk'[k]].pc # "recv" =>
                       workers'[lastOk'[k]].cur.after = lastOk'[k]
       /\ (phase = "running" /\ phase' = "running") =>
             /\ \A w \in (DOMAIN workers) \ (DOMAIN workers') :
                   workers[w].inbox = <<>> /\ workers[w].pc = "recv"
             /\ \A w \in (DOMAIN workers) \cap (DOMAIN workers') :
                   \/ workers'[w].inbox = workers[w].inbox
                   \/ /\ workers[w].inbox # <<>>
                      /\ workers'[w].inbox = Tail(workers[w].inbox)
                      /\ workers'[w].cur = Head(workers[w].inbox)
                   \/ /\ workers'[w].inbox # <<>>
                      /\ workers[w].inbox =
                             SubSeq(workers'[w].inbox, 1, Len(workers'[w].inbox) - 1)
       /\ (last'.op = "invoke" /\ last'.worker # 0) => last'.status \in {200, 500, 503}]_vars

\* A worker whose key has been redeployed has answered a request from its queue
\* with the guest's response, while the new worker holds requests of its own.
C18_Witness ==
    /\ last.op = "invoke"
    /\ last.status = 200
    /\ last.worker \in DOMAIN workers
    /\ ~workers[last.worker].open
    /\ last.key \in DOMAIN instances
    /\ instances[last.key] # last.worker
    /\ instances[last.key] \in DOMAIN workers
    /\ workers[instances[last.key]].inbox # <<>>

----------------------------------------------------------------------------
(* Progress: one key, deployed and redeployed, its invokes and its workers *)
(* under fair scheduling: a worker task that can take a request does, and  *)
(* every guest handler call returns.                                       *)

WorkerIds == 1..MaxWorkers

NextLive ==
    \/ \E b \in GoodBytes : DeployStart(KeyA, b) /\ UNCHANGED <<okBytes, ticket>>
    \/ DeployUpload("ok") /\ UNCHANGED <<okBytes, ticket>>
    \/ DeployInsert /\ UNCHANGED <<okBytes, ticket>>
    \/ InvokeTicketed(Slash \o KeyA \o Slash)
    \/ \E w \in WorkerIds : WorkerRecv(w) /\ UNCHANGED <<okBytes, ticket>>
    \/ \E w \in WorkerIds : WorkerExit(w) /\ UNCHANGED <<okBytes, ticket>>
    \/ \E w \in WorkerIds, g \in GuestOutcomes :
          WorkerCall(w, 0, g) /\ UNCHANGED <<okBytes, ticket>>

LiveSpec ==
    /\ Init
    /\ [][NextLive]_vars
    /\ \A w \in WorkerIds :
          /\ WF_vars(WorkerRecv(w) /\ UNCHANGED <<okBytes, ticket>>)
          /\ WF_vars(\E g \in GuestOutcomes : WorkerCall(w, 0, g) /\ UNCHANGED <<okBytes, ticket>>)

\* Request n is in a worker's inbox or is the one a worker is serving.
Held(n) ==
    \E w \in DOMAIN workers :
        \/ \E i \in 1..Len(workers[w].inbox) : workers[w].inbox[i].id = n
        \/ workers[w].pc # "recv" /\ workers[w].cur.id = n

\* C19: every invocation accepted into a worker's inbox is eventually resolved at
\* its caller (a response, 500 or 503) and leaves the worker, whatever the guest
\* does with its response outparam.
C19_EveryRequestResolves ==
    \A n \in 1..MaxTickets : Held(n) ~> ~Held(n)

\* A worker waits on the outparam its guest kept while a further request is
\* queued behind the one it was serving.
C19_Witness ==
    \E w \in DOMAIN workers : workers[w].pc = "stuck" /\ workers[w].inbox # <<>>

\* The same system with guests that never keep their outparam: under it every
\* request is resolved (C19_EveryRequestResolves holds), so the kept outparam is
\* the one way a worker stalls.
Releasing == GuestOutcomes \ {"keep"}

NextLiveReleasing ==
    \/ \E b \in GoodBytes : DeployStart(KeyA, b) /\ UNCHANGED <<okBytes, ticket>>
    \/ DeployUpload("ok") /\ UNCHANGED <<okBytes, ticket>>
    \/ DeployInsert /\ UNCHANGED <<okBytes, ticket>>
    \/ InvokeTicketed(Slash \o KeyA \o Slash)
    \/ \E w \in WorkerIds : WorkerRecv(w) /\ UNCHANGED <<okBytes, ticket>>
    \/ \E w \in WorkerIds : WorkerExit(w) /\ UNCHANGED <<okBytes, ticket>>
    \/ \E w \in WorkerIds, g \in Releasing :
          WorkerCall(w, 0, g) /\ UNCHANGED <<okBytes, ticket>>

LiveSpecReleasing ==
    /\ Init
    /\ [][NextLiveReleasing]_vars
    /\ \A w \in WorkerIds :
          /\ WF_vars(WorkerRecv(w) /\ UNCHANGED <<okBytes, ticket>>)
          /\ WF_vars(\E g \in Releasing : WorkerCall(w, 0, g) /\ UNCHANGED <<okBytes, ticket>>)

----------------------------------------------------------------------------
(* Properties of deploys to one key (under Spec).                          *)

\* C20: once no deploy is in progress, for every key deployed with success the
\* blob <key>.wasm holds the bytes of the worker registered under the key: the
\* deploy that wrote the store last is the one that made the registered worker.
C20_StoreMatchesRegisteredWorker ==
    (phase = "running" /\ dep.pc = "idle") =>
        \A k \in Keys :
            lastOk[k] # 0 =>
                /\ k \in DOMAIN instances
                /\ instances[k] = lastOk[k]
                /\ instances[k] \in DOMAIN workers
                /\ BlobName(k) \in DOMAIN store
                /\ store[BlobName(k)] = workers[instances[k]].bytes

\* A key has been deployed twice with different bytes; the worker of the first
\* deploy is still alive and no deploy is in progress.
C20_Witness ==
    /\ phase = "running"
    /\ dep.pc = "idle"
    /\ \E k \in Keys, old \in DOMAIN workers :
          /\ lastOk[k] # 0
          /\ old # lastOk[k]
          /\ workers[old].key = k
          /\ lastOk[k] \in DOMAIN workers
          /\ workers[old].bytes # workers[lastOk[k]].bytes
          /\ ~workers[old].open
          /\ workers[old].inbox # <<>>

====
